---- MODULE Spec2Model ----
(***************************************************************************)
(* Proxy / composition layer of mcp_agent (src/mcp_agent/core/proxies.py): *)
(* the leaf adapters, RouterProxy.generate_str and ChainProxy.generate_str *)
(* as a small-step interpreter over a stack of coroutine frames.  Every    *)
(* `await` of the source is a suspension point: the callee's frame is      *)
(* pushed, and the caller resumes in a later step with the value returned  *)
(* (ret.status = "ok") or the exception raised (ret.status = "err").       *)
(* Strings are TLA+ strings, so the cumulative transcript is built exactly *)
(* as the f-strings of the source build it.                                *)
(***************************************************************************)
EXTENDS Naturals, Sequences, FiniteSets, TLC

VARIABLES
    agent_proxies,  \* ProxyDict: name -> proxy object (kind "absent": no key)
    stack,          \* frames of the generate_str coroutines in flight, top last
    ret,            \* value or exception travelling from a finished callee
    phase,          \* "idle" (no call yet), "running", "done" (host has ret)
    trace,          \* history of calls, lookups, backend calls, returns, raises
    other,          \* <<stack, ret, phase, trace>> of a second, suspended task
    prompt_registry \* prompt_server.prompt_registry: name -> PromptMetadata

vars == <<agent_proxies, stack, ret, phase, trace, other, prompt_registry>>

----------------------------------------------------------------------------
(* Bounds and input sets *)

\* longest chain sequence drawn at construction
MaxLen == 3

\* names the host registers leaf proxies under, and their proxy classes
LeafKind ==
    [A |-> "llm", B |-> "agent", C |-> "workflow", X |-> "base"]

StepNames == {"A", "B", "C", "X"}

\* the one name whose registration may come after the chain's construction
LateNames == {"C"}

ChainName == "chain"
RouterName == "R"
\* the name of a second chain, registered only where chains are nested
SubName == "sub"
Names == StepNames \cup {ChainName, RouterName, SubName}

Messages == {"hi", ""}

\* **kwargs of a call: a set of <<key, value>> pairs, {} when none is passed
NoKwargs == {}
Kwargs == {NoKwargs, {<<"request_params", "rp">>}}

\* what a backend's generation call can answer
Outputs == {"x", "y"}

\* every sequence over S of length 0..n
RECURSIVE SeqsUpTo(_, _)
SeqsUpTo(S, n) ==
    IF n = 0 THEN {<<>>}
    ELSE LET shorter == SeqsUpTo(S, n - 1)
         IN  shorter \cup {Append(s, e) : s \in {t \in shorter : Len(t) = n - 1}, e \in S}

ChainSequences == SeqsUpTo(StepNames, MaxLen)

----------------------------------------------------------------------------
(* Proxy objects *)

Absent == [kind |-> "absent", sequence |-> <<>>,
           continue_with_final |-> FALSE, cumulative |-> FALSE]

\* BaseAgentProxy / AgentProxy / LLMAgentProxy / WorkflowProxy / RouterProxy:
\* no field beyond _app, _name and the backend reference
SimpleProxy(kind) ==
    [kind |-> kind, sequence |-> <<>>,
     continue_with_final |-> FALSE, cumulative |-> FALSE]

\* ChainProxy.__init__
NewChainProxy(sequence) ==
    [kind |-> "chain", sequence |-> sequence,
     continue_with_final |-> TRUE, cumulative |-> FALSE]

----------------------------------------------------------------------------
(* Router results *)

\* RouterResult.result is an Agent, a str (server name) or anything else
\* (a callable); confidence and reasoning are rendered by the f-string
AgentTarget(n) == [type |-> "Agent", repr |-> n]
StrTarget == [type |-> "str", repr |-> "fetch"]
OtherTarget == [type |-> "other", repr |-> "<function f>"]

RouteResult(t, c) == [result |-> t, confidence |-> c, reasoning |-> "why"]

RouteResults ==
    { <<>>,
      <<RouteResult(AgentTarget("A"), "high")>>,
      <<RouteResult(StrTarget, "high")>>,
      <<RouteResult(OtherTarget, "low")>>,
      <<RouteResult(AgentTarget("A"), "high"), RouteResult(StrTarget, "low")>>,
      <<RouteResult(StrTarget, "high"), RouteResult(AgentTarget("A"), "low")>> }

NoRouteText == "No appropriate route found for the request."
ToolCallText == "Tool call requested by router - not yet supported"
RoutedToText(top) ==
    "Routed to: " \o top.result.repr \o " (" \o top.confidence \o "): "
        \o top.reasoning

----------------------------------------------------------------------------
(* Frames, results, trace events *)

NoRet == [status |-> "none", value |-> ""]
Ok(v) == [status |-> "ok", value |-> v]
Err(e) == [status |-> "err", value |-> e]

KeyError(n) == "KeyError(" \o n \o ")"
BackendError(n) == "BackendError(" \o n \o ")"
NotImplementedError == "NotImplementedError"
TypeError == "TypeError"

Frame(name, message, kwargs) ==
    [name |-> name, pc |-> "start", message |-> message, kwargs |-> kwargs,
     i |-> 0, cur |-> "", target |-> ""]

\* ev: "routed" (route() answered `results` to the router `name`),
\*     "call" (generate_str of proxy `name` invoked with arg, kwargs; step is
\*     its 1-based place in the calling chain's sequence, 0 otherwise),
\*     "lookup" (self._agent_proxies[name]), "backend" (op on backend `name`),
\*     "ret" / "exc" (the frame of proxy `name` finished with arg).
\* by: depth of the frame acting (0: the host).
Event(ev, by, name, op, arg, kwargs, step) ==
    [ev |-> ev, by |-> by, name |-> name, op |-> op, arg |-> arg,
     kwargs |-> kwargs, step |-> step, results |-> <<>>]

Depth == Len(stack)
Top == stack[Len(stack)]
Self == agent_proxies[Top.name]
Pop == SubSeq(stack, 1, Len(stack) - 1)
WithTop(f) == [stack EXCEPT ![Len(stack)] = f]

Resolves(name) == agent_proxies[name].kind # "absent"

LookupEv(name) == Event("lookup", Depth, name, "[]", "", NoKwargs, 0)
CallEv(by, callee, message, kwargs, step) ==
    Event("call", by, callee, "generate_str", message, kwargs, step)
BackendEv(target, op, message, kwargs) ==
    Event("backend", Depth, target, op, message, kwargs, 0)
RoutedEv(results) ==
    [Event("routed", Depth, Top.name, "", "", NoKwargs, 0) EXCEPT !.results = results]

\* `return v` in the top frame, after it has logged `events`
Return(v, events) ==
    /\ stack' = Pop
    /\ ret' = Ok(v)
    /\ phase' = IF Len(stack) = 1 THEN "done" ELSE phase
    /\ trace' = trace \o events
                  \o <<Event("ret", Depth, Top.name, "", v, NoKwargs, 0)>>

\* an exception leaving the top frame (nothing in proxies.py catches one)
Raise(e, events) ==
    /\ stack' = Pop
    /\ ret' = Err(e)
    /\ phase' = IF Len(stack) = 1 THEN "done" ELSE phase
    /\ trace' = trace \o events
                  \o <<Event("exc", Depth, Top.name, "", e, NoKwargs, 0)>>

\* the deepest nesting of coroutine frames that is explored
MaxDepth == 5

\* `await self._agent_proxies[callee].generate_str(message, **kwargs)` in the
\* top frame f: the subscript raises KeyError when the name has no entry
LookupAndCall(f, callee, message, kwargs, step) ==
    IF Resolves(callee)
    THEN /\ Depth < MaxDepth
         /\ stack' = Append(WithTop(f), Frame(callee, message, kwargs))
         /\ ret' = NoRet
         /\ phase' = phase
         /\ trace' = trace \o <<LookupEv(callee),
                                CallEv(Depth, callee, message, kwargs, step)>>
    ELSE Raise(KeyError(callee), <<LookupEv(callee)>>)

\* the context of a task: what a switch between two tasks saves and restores
Task(st, r, ph, tr) == [stack |-> st, ret |-> r, phase |-> ph, trace |-> tr]
NoTask == Task(<<>>, NoRet, "none", <<>>)

\* prompt_registry: Dict[str, PromptMetadata] = {}
NoPrompts == [n \in {} |-> n]

----------------------------------------------------------------------------
(* Host application *)

Init ==
    /\ \E sequence \in ChainSequences :
          agent_proxies =
              [n \in Names |->
                  IF n = ChainName THEN NewChainProxy(sequence)
                  ELSE IF n = RouterName THEN SimpleProxy("router")
                  ELSE IF n \in LateNames \cup {SubName} THEN Absent
                  ELSE SimpleProxy(LeafKind[n])]
    /\ stack = <<>>
    /\ ret = NoRet
    /\ phase = "idle"
    /\ trace = <<>>
    /\ other = NoTask
    /\ prompt_registry = NoPrompts

\* the host adds an entry to the shared ProxyDict
HostRegister ==
    /\ \E n \in LateNames :
          /\ ~Resolves(n)
          /\ agent_proxies' = [agent_proxies EXCEPT ![n] = SimpleProxy(LeafKind[n])]
    /\ UNCHANGED <<stack, ret, phase, trace, other, prompt_registry>>

\* the host selects cumulative mode on the chain it has built
HostSetCumulative ==
    /\ phase = "idle"
    /\ ~agent_proxies[ChainName].cumulative
    /\ agent_proxies' = [agent_proxies EXCEPT ![ChainName].cumulative = TRUE]
    /\ UNCHANGED <<stack, ret, phase, trace, other, prompt_registry>>

\* the host resolves a name and awaits proxy.generate_str(message, **kwargs)
HostCall ==
    /\ phase = "idle"
    /\ \E n \in Names, message \in Messages, kwargs \in Kwargs :
          /\ Resolves(n)
          /\ stack' = <<Frame(n, message, kwargs)>>
          /\ trace' = Append(trace, CallEv(0, n, message, kwargs, 0))
    /\ phase' = "running"
    /\ UNCHANGED <<agent_proxies, ret, other, prompt_registry>>

\* message: Optional[str] = None
NoMessage == "<None>"

\* the host awaits proxy(message) or proxy.send(message), message optional
HostInvoke ==
    /\ phase = "idle"
    /\ \E n \in Names, entry \in {"__call__", "send"},
          message \in Messages \cup {NoMessage} :
          /\ Resolves(n)
          /\ stack' = <<[Frame(n, message, NoKwargs) EXCEPT !.pc = entry]>>
          /\ trace' = Append(trace, Event("invoke", 0, n, entry, message, NoKwargs, 0))
    /\ phase' = "running"
    /\ UNCHANGED <<agent_proxies, ret, other, prompt_registry>>

\* the host awaits proxy.prompt(default_prompt)
HostPrompt ==
    /\ phase = "idle"
    /\ \E n \in Names, default_prompt \in Messages :
          /\ Resolves(n)
          /\ stack' = <<[Frame(n, default_prompt, NoKwargs) EXCEPT !.pc = "prompt"]>>
          /\ trace' = Append(trace,
                             Event("invoke", 0, n, "prompt", default_prompt, NoKwargs, 0))
    /\ phase' = "running"
    /\ UNCHANGED <<agent_proxies, ret, other, prompt_registry>>

\* the host takes the result of a finished call and is free to call again
HostCollect ==
    /\ phase = "done"
    /\ phase' = "idle"
    /\ ret' = NoRet
    /\ trace' = <<>>
    /\ UNCHANGED <<agent_proxies, stack, other, prompt_registry>>

\* the host clears the continuation flag of the chain it has built
HostSetContinueWithFinal ==
    /\ phase = "idle"
    /\ agent_proxies[ChainName].continue_with_final
    /\ agent_proxies' = [agent_proxies EXCEPT ![ChainName].continue_with_final = FALSE]
    /\ UNCHANGED <<stack, ret, phase, trace, other, prompt_registry>>

Running(kinds, pcs) ==
    /\ phase = "running"
    /\ stack # <<>>
    /\ Self.kind \in kinds
    /\ Top.pc \in pcs

Kinds == {"base", "agent", "llm", "workflow", "router", "chain"}

----------------------------------------------------------------------------
(* BaseAgentProxy: __call__, send, prompt *)

\* a method of the running coroutine's own proxy is awaited: its frame is
\* pushed and the caller waits at pc `waiting`
AwaitSelf(waiting, method, message, kwargs) ==
    /\ stack' = Append(WithTop([Top EXCEPT !.pc = waiting]),
                       [Frame(Top.name, message, kwargs) EXCEPT !.pc = method])
    /\ trace' = Append(trace,
                       Event(IF method = "start" THEN "call" ELSE "self", Depth, Top.name,
                             IF method = "start" THEN "generate_str" ELSE method,
                             message, kwargs, 0))
    /\ UNCHANGED <<ret, phase>>

\* __call__: return await self.send(message)
CallSend ==
    /\ Running(Kinds, {"__call__"})
    /\ AwaitSelf("await_self", "send", Top.message, NoKwargs)
    /\ UNCHANGED <<agent_proxies, other, prompt_registry>>

\* faulty variant of SendPrompts: `if not message`, so "" prompts too
SendPromptsOnFalsy(message) == message = NoMessage \/ message = ""

\* the test of send on its message: TRUE when self.prompt() is awaited
SendPrompts(message) == message = NoMessage

\* send: prompt() when message is None, generate_str(message) otherwise
SendDispatch ==
    /\ Running(Kinds, {"send"})
    /\ IF SendPrompts(Top.message)
       THEN AwaitSelf("await_self", "prompt", "", NoKwargs)
       ELSE AwaitSelf("await_self", "start", Top.message, NoKwargs)
    /\ UNCHANGED <<agent_proxies, other, prompt_registry>>

\* prompt: await self._app.prompt(self._name, default_prompt)
PromptStart ==
    /\ Running(Kinds, {"prompt"})
    /\ stack' = WithTop([Top EXCEPT !.pc = "await_prompt", !.target = Top.name])
    /\ trace' = Append(trace, BackendEv(Top.name, "app.prompt", Top.message, NoKwargs))
    /\ UNCHANGED <<agent_proxies, ret, phase, other, prompt_registry>>

\* the host application's prompt answers with the text entered, or raises
PromptReturn ==
    /\ Running(Kinds, {"await_prompt"})
    /\ \/ \E v \in Outputs : Return(v, <<>>)
       \/ Raise(BackendError(Top.target), <<>>)
    /\ UNCHANGED <<agent_proxies, other, prompt_registry>>

\* `return await ...` of __call__ and send: the awaited outcome is their own
SelfReturn ==
    /\ Running(Kinds, {"await_self"})
    /\ ret.status # "none"
    /\ IF ret.status = "ok" THEN Return(ret.value, <<>>) ELSE Raise(ret.value, <<>>)
    /\ UNCHANGED <<agent_proxies, other, prompt_registry>>

----------------------------------------------------------------------------
(* Leaf adapters *)

\* faulty variant of ForwardedKwargs: AgentProxy passes the kwargs on too
ForwardedKwargsAlways(kind, kwargs) == kwargs

\* what each adapter passes on as **kwargs: AgentProxy calls
\* self._app.send(self._name, message) and drops them
ForwardedKwargs(kind, kwargs) ==
    IF kind = "agent" THEN NoKwargs ELSE kwargs

BackendOp(kind) ==
    IF kind = "agent" THEN "app.send"
    ELSE IF kind = "llm" THEN "_agent._llm.generate_str"
    ELSE "_workflow.generate_str"

\* AgentProxy / LLMAgentProxy / WorkflowProxy .generate_str up to its await
LeafGenerate ==
    /\ Running({"agent", "llm", "workflow"}, {"start"})
    /\ stack' = WithTop([Top EXCEPT !.pc = "await_backend", !.target = Top.name])
    /\ trace' = Append(trace,
                       BackendEv(Top.name, BackendOp(Self.kind), Top.message,
                                 ForwardedKwargs(Self.kind, Top.kwargs)))
    /\ UNCHANGED <<agent_proxies, ret, phase, other, prompt_registry>>

\* BaseAgentProxy.generate_str(self, message) takes no keyword arguments:
\* with any it fails to bind (TypeError), otherwise its body raises
BaseGenerate ==
    /\ Running({"base"}, {"start"})
    /\ Raise(IF Top.kwargs # NoKwargs THEN TypeError ELSE NotImplementedError, <<>>)
    /\ UNCHANGED <<agent_proxies, other, prompt_registry>>

\* the awaited generation call of a backend answers, or raises
BackendReturn ==
    /\ Running({"agent", "llm", "workflow", "router"}, {"await_backend"})
    /\ \/ \E v \in Outputs : Return(v, <<>>)
       \/ Raise(BackendError(Top.target), <<>>)
    /\ UNCHANGED <<agent_proxies, other, prompt_registry>>

----------------------------------------------------------------------------
(* RouterProxy.generate_str *)

\* results = await self._workflow.route(message): kwargs are not passed
RouterStart ==
    /\ Running({"router"}, {"start"})
    /\ stack' = WithTop([Top EXCEPT !.pc = "await_route"])
    /\ trace' = Append(trace, BackendEv(Top.name, "_workflow.route", Top.message, NoKwargs))
    /\ UNCHANGED <<agent_proxies, ret, phase, other, prompt_registry>>

\* faulty variant of TopResult: acts on the last element, not the first
LastResult(results) == results[Len(results)]

\* the element of `results` the router acts on
TopResult(results) == results[1]

\* faulty variant of RouterNoRoute: the emptiness test is missing, so
\* results[0] raises IndexError
RouterNoRouteIndexError(results) ==
    Raise("IndexError", <<RoutedEv(results)>>)

\* `if not results: return "No appropriate route found for the request."`
RouterNoRoute(results) ==
    Return(NoRouteText, <<RoutedEv(results)>>)

\* faulty variant of RouterDispatch: a target that is neither an Agent nor a
\* str is rejected with an exception
RouterDispatchRejectsOther(results) ==
    LET top_result == TopResult(results) IN
    IF top_result.result.type = "Agent"
    THEN /\ stack' = WithTop([Top EXCEPT !.pc = "await_backend",
                                         !.target = top_result.result.repr])
         /\ trace' = trace \o <<RoutedEv(results),
                                BackendEv(top_result.result.repr, "_llm.generate_str",
                                          Top.message, Top.kwargs)>>
         /\ UNCHANGED <<ret, phase>>
    ELSE IF top_result.result.type = "str"
    THEN Return(ToolCallText, <<RoutedEv(results)>>)
    ELSE Raise("ValueError", <<RoutedEv(results)>>)

\* faulty variant of RouterDispatch: the isinstance(..., str) branch is
\* missing, so a server name falls through to the "Routed to" text
RouterDispatchNoStrBranch(results) ==
    LET top_result == TopResult(results) IN
    IF top_result.result.type = "Agent"
    THEN /\ stack' = WithTop([Top EXCEPT !.pc = "await_backend",
                                         !.target = top_result.result.repr])
         /\ trace' = trace \o <<RoutedEv(results),
                                BackendEv(top_result.result.repr, "_llm.generate_str",
                                          Top.message, Top.kwargs)>>
         /\ UNCHANGED <<ret, phase>>
    ELSE Return(RoutedToText(top_result), <<RoutedEv(results)>>)

\* the isinstance dispatch on top_result.result
RouterDispatch(results) ==
    LET top_result == TopResult(results) IN
    IF top_result.result.type = "Agent"
    THEN /\ stack' = WithTop([Top EXCEPT !.pc = "await_backend",
                                         !.target = top_result.result.repr])
         /\ trace' = trace \o <<RoutedEv(results),
                                BackendEv(top_result.result.repr, "_llm.generate_str",
                                          Top.message, Top.kwargs)>>
         /\ UNCHANGED <<ret, phase>>
    ELSE IF top_result.result.type = "str"
    THEN Return(ToolCallText, <<RoutedEv(results)>>)
    ELSE Return(RoutedToText(top_result), <<RoutedEv(results)>>)

\* the rest of generate_str once route() has answered `results`
RouterDecide(results) ==
    IF results = <<>> THEN RouterNoRoute(results) ELSE RouterDispatch(results)

RouteReturn ==
    /\ Running({"router"}, {"await_route"})
    /\ \/ \E results \in RouteResults : RouterDecide(results)
       \/ Raise(BackendError(Top.name), <<>>)
    /\ UNCHANGED <<agent_proxies, other, prompt_registry>>

----------------------------------------------------------------------------
(* ChainProxy.generate_str *)

\* f"<{agent}>\n{response}\n</{agent}>"
Tagged(agent, response) ==
    "<" \o agent \o ">\n" \o response \o "\n</" \o agent \o ">"

\* the running value after the first step: the seeded transcript in
\* cumulative mode, first_response in sequential mode
AfterFirst(cumulative, first_agent, first_response) ==
    IF cumulative THEN Tagged(first_agent, first_response) ELSE first_response

\* faulty variant of AfterStep: sequential mode appends to the running
\* message instead of replacing it
AfterStepAccumulate(cumulative, cur, agent_name, agent_response) ==
    IF cumulative THEN cur \o "\n\n" \o Tagged(agent_name, agent_response)
    ELSE cur \o agent_response

\* faulty variant of AfterStep: cumulative blocks joined by one newline
AfterStepNoBlankLine(cumulative, cur, agent_name, agent_response) ==
    IF cumulative THEN cur \o "\n" \o Tagged(agent_name, agent_response)
    ELSE agent_response

\* the running value after a later step: cumulative_response += ..., or
\* current_message = response
AfterStep(cumulative, cur, agent_name, agent_response) ==
    IF cumulative THEN cur \o "\n\n" \o Tagged(agent_name, agent_response)
    ELSE agent_response

\* faulty variant of StepKwargs: every step is handed the kwargs
StepKwargsEveryStep(i, kwargs) == kwargs

\* kwargs of the call to the step at place i of the sequence
StepKwargs(i, kwargs) == IF i = 1 THEN kwargs ELSE NoKwargs

\* the `for agent_name in self._sequence[1:]` loop of frame f at place f.i:
\* the next call, or the return once the sequence is exhausted
ChainLoop(f) ==
    IF f.i > Len(Self.sequence) THEN Return(f.cur, <<>>)
    ELSE LookupAndCall(f, Self.sequence[f.i], f.cur, StepKwargs(f.i, f.kwargs), f.i)

\* faulty variant of ChainStart: it writes self._continue_with_final
ChainStartClearsFlag ==
    /\ Running({"chain"}, {"start"})
    /\ IF Self.sequence = <<>> THEN Return(Top.message, <<>>)
       ELSE LookupAndCall([Top EXCEPT !.pc = "await_first", !.i = 1],
                          Self.sequence[1], Top.message, StepKwargs(1, Top.kwargs), 1)
    /\ agent_proxies' = [agent_proxies EXCEPT ![Top.name].continue_with_final = FALSE]
    /\ UNCHANGED <<other, prompt_registry>>

\* the first place of the sequence whose name has no entry (0: none)
FirstUnresolved(sequence) ==
    IF \A k \in DOMAIN sequence : Resolves(sequence[k]) THEN 0
    ELSE CHOOSE k \in DOMAIN sequence :
            /\ ~Resolves(sequence[k])
            /\ \A j \in 1..k - 1 : Resolves(sequence[j])

\* faulty variant of ChainStart: every name of the sequence is resolved on
\* entry, before the first step is called
ChainStartResolvesAll ==
    /\ Running({"chain"}, {"start"})
    /\ IF Self.sequence = <<>> THEN Return(Top.message, <<>>)
       ELSE IF FirstUnresolved(Self.sequence) # 0
       THEN Raise(KeyError(Self.sequence[FirstUnresolved(Self.sequence)]),
                  [k \in 1..FirstUnresolved(Self.sequence) |-> LookupEv(Self.sequence[k])])
       ELSE LookupAndCall([Top EXCEPT !.pc = "await_first", !.i = 1],
                          Self.sequence[1], Top.message, StepKwargs(1, Top.kwargs), 1)
    /\ UNCHANGED <<agent_proxies, other, prompt_registry>>

\* faulty variant of ChainStart: the `if not self._sequence` test is missing,
\* so self._sequence[0] raises IndexError on the empty sequence
ChainStartNoEmptyTest ==
    /\ Running({"chain"}, {"start"})
    /\ IF Self.sequence = <<>> THEN Raise("IndexError", <<>>)
       ELSE LookupAndCall([Top EXCEPT !.pc = "await_first", !.i = 1],
                          Self.sequence[1], Top.message, StepKwargs(1, Top.kwargs), 1)
    /\ UNCHANGED <<agent_proxies, other, prompt_registry>>

\* entry: the empty sequence returns the message, otherwise the first call
ChainStart ==
    /\ Running({"chain"}, {"start"})
    /\ IF Self.sequence = <<>> THEN Return(Top.message, <<>>)
       ELSE LookupAndCall([Top EXCEPT !.pc = "await_first", !.i = 1],
                          Self.sequence[1], Top.message, StepKwargs(1, Top.kwargs), 1)
    /\ UNCHANGED <<agent_proxies, other, prompt_registry>>

\* faulty variant of ChainAfterFirst: a cleared _continue_with_final ends the
\* chain after its first step
ChainAfterFirstReadsFlag ==
    /\ Running({"chain"}, {"await_first"})
    /\ ret.status = "ok"
    /\ IF Len(Self.sequence) = 1 \/ ~Self.continue_with_final
       THEN Return(ret.value, <<>>)
       ELSE ChainLoop([Top EXCEPT
                !.pc = IF Self.cumulative THEN "await_cumulative" ELSE "await_sequential",
                !.cur = AfterFirst(Self.cumulative, Self.sequence[1], ret.value),
                !.i = 2])
    /\ UNCHANGED <<agent_proxies, other, prompt_registry>>

\* faulty variant of ChainAfterFirst: the single-entry return comes after the
\* mode test, so cumulative mode returns the tagged block
ChainAfterFirstTagsSingle ==
    /\ Running({"chain"}, {"await_first"})
    /\ ret.status = "ok"
    /\ IF Len(Self.sequence) = 1
       THEN Return(AfterFirst(Self.cumulative, Self.sequence[1], ret.value), <<>>)
       ELSE ChainLoop([Top EXCEPT
                !.pc = IF Self.cumulative THEN "await_cumulative" ELSE "await_sequential",
                !.cur = AfterFirst(Self.cumulative, Self.sequence[1], ret.value),
                !.i = 2])
    /\ UNCHANGED <<agent_proxies, other, prompt_registry>>

\* first_response has arrived: return it, or enter the loop of the mode
ChainAfterFirst ==
    /\ Running({"chain"}, {"await_first"})
    /\ ret.status = "ok"
    /\ IF Len(Self.sequence) = 1 THEN Return(ret.value, <<>>)
       ELSE ChainLoop([Top EXCEPT
                !.pc = IF Self.cumulative THEN "await_cumulative" ELSE "await_sequential",
                !.cur = AfterFirst(Self.cumulative, Self.sequence[1], ret.value),
                !.i = 2])
    /\ UNCHANGED <<agent_proxies, other, prompt_registry>>

\* faulty variant of ChainAfterStep: the running value is kept in a field of
\* the chain object, so storing it also replaces the value that a second,
\* suspended invocation of the same chain will read when it resumes
ChainAfterStepSharedField ==
    /\ Running({"chain"}, {"await_cumulative", "await_sequential"})
    /\ ret.status = "ok"
    /\ LET value == AfterStep(Top.pc = "await_cumulative", Top.cur,
                              Self.sequence[Top.i], ret.value)
       IN  /\ ChainLoop([Top EXCEPT !.cur = value, !.i = Top.i + 1])
           /\ other' = [other EXCEPT !.stack =
                  [k \in DOMAIN other.stack |->
                      IF other.stack[k].name = Top.name
                      THEN [other.stack[k] EXCEPT !.cur = value]
                      ELSE other.stack[k]]]
    /\ UNCHANGED <<agent_proxies, prompt_registry>>

\* faulty variant of ChainAfterStep: the loop does not advance, the same step
\* is called again
ChainAfterStepRepeats ==
    /\ Running({"chain"}, {"await_cumulative", "await_sequential"})
    /\ ret.status = "ok"
    /\ ChainLoop([Top EXCEPT
            !.cur = AfterStep(Top.pc = "await_cumulative", Top.cur,
                              Self.sequence[Top.i], ret.value)])
    /\ UNCHANGED <<agent_proxies, other, prompt_registry>>

\* faulty variant of ChainAfterStep: the loop advances by two places
ChainAfterStepSkips ==
    /\ Running({"chain"}, {"await_cumulative", "await_sequential"})
    /\ ret.status = "ok"
    /\ ChainLoop([Top EXCEPT
            !.cur = AfterStep(Top.pc = "await_cumulative", Top.cur,
                              Self.sequence[Top.i], ret.value),
            !.i = Top.i + 2])
    /\ UNCHANGED <<agent_proxies, other, prompt_registry>>

\* a later step's response has arrived: fold it in and go round the loop
ChainAfterStep ==
    /\ Running({"chain"}, {"await_cumulative", "await_sequential"})
    /\ ret.status = "ok"
    /\ ChainLoop([Top EXCEPT
            !.cur = AfterStep(Top.pc = "await_cumulative", Top.cur,
                              Self.sequence[Top.i], ret.value),
            !.i = Top.i + 1])
    /\ UNCHANGED <<agent_proxies, other, prompt_registry>>

\* faulty variant of ChainPropagate: the exception is caught and the value
\* built so far is returned
ChainPropagateSwallows ==
    /\ Running({"chain"}, {"await_first", "await_cumulative", "await_sequential"})
    /\ ret.status = "err"
    /\ Return(Top.cur, <<>>)
    /\ UNCHANGED <<agent_proxies, other, prompt_registry>>

\* the awaited step raised: no try/except, so the exception leaves the chain
ChainPropagate ==
    /\ Running({"chain"}, {"await_first", "await_cumulative", "await_sequential"})
    /\ ret.status = "err"
    /\ Raise(ret.value, <<>>)
    /\ UNCHANGED <<agent_proxies, other, prompt_registry>>

----------------------------------------------------------------------------

Next ==
    \/ HostRegister
    \/ HostSetCumulative
    \/ HostSetContinueWithFinal
    \/ HostCall
    \/ HostInvoke
    \/ HostPrompt
    \/ HostCollect
    \/ CallSend
    \/ SendDispatch
    \/ PromptStart
    \/ PromptReturn
    \/ SelfReturn
    \/ LeafGenerate
    \/ BaseGenerate
    \/ BackendReturn
    \/ RouterStart
    \/ RouteReturn
    \/ ChainStart
    \/ ChainAfterFirst
    \/ ChainAfterStep
    \/ ChainPropagate

Spec == Init /\ [][Next]_vars

----------------------------------------------------------------------------
(* Two invocations interleaved on one event loop *)

\* longest chain sequence drawn when two invocations share the chain
ConcLen == 2

ConcSequences == SeqsUpTo({"A", "B"}, ConcLen)

ConcInit ==
    /\ \E sequence \in ConcSequences :
          agent_proxies =
              [n \in Names |->
                  IF n = ChainName THEN NewChainProxy(sequence)
                  ELSE IF n = RouterName THEN SimpleProxy("router")
                  ELSE IF n \in LateNames \cup {SubName} THEN Absent
                  ELSE SimpleProxy(LeafKind[n])]
    /\ stack = <<>>
    /\ ret = NoRet
    /\ phase = "idle"
    /\ trace = <<>>
    /\ other = Task(<<>>, NoRet, "idle", <<>>)
    /\ prompt_registry = NoPrompts

\* the host selects cumulative mode before either invocation starts
ConcSetCumulative ==
    /\ other.phase = "idle"
    /\ HostSetCumulative

\* a task of the host starts chain.generate_str(message)
ConcCall ==
    /\ phase = "idle"
    /\ \E message \in Messages :
          /\ stack' = <<Frame(ChainName, message, NoKwargs)>>
          /\ trace' = Append(trace, CallEv(0, ChainName, message, NoKwargs, 0))
    /\ phase' = "running"
    /\ UNCHANGED <<agent_proxies, ret, other, prompt_registry>>

\* the running task is at an await that has really suspended (a backend is
\* awaited), or has not started, or is over
Suspended ==
    IF phase = "running"
    THEN Top.pc \in {"await_backend", "await_route", "await_prompt"}
    ELSE TRUE

\* the event loop runs the other task
Switch ==
    /\ Suspended
    /\ other.phase # "none"
    /\ stack' = other.stack
    /\ ret' = other.ret
    /\ phase' = other.phase
    /\ trace' = other.trace
    /\ other' = Task(stack, ret, phase, trace)
    /\ UNCHANGED <<agent_proxies, prompt_registry>>

ConcNext ==
    \/ ConcSetCumulative
    \/ ConcCall
    \/ Switch
    \/ LeafGenerate
    \/ BackendReturn
    \/ ChainStart
    \/ ChainAfterFirst
    \/ ChainAfterStep
    \/ ChainPropagate

ConcSpec == ConcInit /\ [][ConcNext]_vars

----------------------------------------------------------------------------
(* Chains that name chains *)

\* longest sequence of a chain where chains are nested
NestLen == 2

NestNames == {"A", SubName, ChainName}
NestSequences == SeqsUpTo(NestNames, NestLen)

\* two ChainProxy objects over one registry; a sequence is a list of names and
\* may hold the name of a chain, the chain's own name included
NestInit ==
    /\ \E sequence \in NestSequences, subsequence \in NestSequences :
          agent_proxies =
              [n \in Names |->
                  IF n = ChainName THEN NewChainProxy(sequence)
                  ELSE IF n = SubName THEN NewChainProxy(subsequence)
                  ELSE IF n = RouterName THEN SimpleProxy("router")
                  ELSE IF n \in LateNames THEN Absent
                  ELSE SimpleProxy(LeafKind[n])]
    /\ stack = <<>>
    /\ ret = NoRet
    /\ phase = "idle"
    /\ trace = <<>>
    /\ other = NoTask
    /\ prompt_registry = NoPrompts

\* the host awaits generate_str(message) of one of the two chains
NestCall ==
    /\ phase = "idle"
    /\ \E n \in {ChainName, SubName}, message \in Messages :
          /\ stack' = <<Frame(n, message, NoKwargs)>>
          /\ trace' = Append(trace, CallEv(0, n, message, NoKwargs, 0))
    /\ phase' = "running"
    /\ UNCHANGED <<agent_proxies, ret, other, prompt_registry>>

\* a step of the running coroutines
NestStep ==
    \/ LeafGenerate
    \/ BackendReturn
    \/ ChainStart
    \/ ChainAfterFirst
    \/ ChainAfterStep
    \/ ChainPropagate

NestNext ==
    \/ HostSetCumulative
    \/ NestCall
    \/ NestStep

\* the event loop keeps running a coroutine that can take a step, and an
\* awaited backend call eventually answers or raises
NestSpec == NestInit /\ [][NestNext]_vars /\ WF_vars(NestStep)

----------------------------------------------------------------------------
(* prompt_server.register_prompt *)

\* the most register_prompt calls of one run
MaxPrompts == 4

\* the prompt files given on the command line; two have the same stem, and one
\* has a stem of the form the unique-name loop generates
PromptFiles == {"a/p.txt", "b/p.txt", "p_1.txt", "q.txt"}

\* PromptMetadata as loader.get_metadata(file_path) builds it: a new object
\* per call, named after the file
GetMetadata(file_path) ==
    [name |-> CASE file_path = "a/p.txt" -> "p"
                [] file_path = "b/p.txt" -> "p"
                [] file_path = "p_1.txt" -> "p_1"
                [] file_path = "q.txt" -> "q",
     file |-> file_path]

\* f"{base_name}_{suffix}"
Suffixed(base_name, suffix) == base_name \o "_" \o ToString(suffix)

\* faulty variant of UniqueName: the name is used as it is
UniqueNameOverwrites(registry, prompt_name) == prompt_name

\* faulty variant of UniqueName: the suffix is 1 whatever the registry holds
UniqueNameFirstSuffix(registry, prompt_name) ==
    IF prompt_name \in DOMAIN registry THEN Suffixed(prompt_name, 1)
    ELSE prompt_name

\* `while prompt_name in prompt_registry:` from `suffix`
RECURSIVE FirstFree(_, _, _)
FirstFree(registry, base_name, suffix) ==
    IF Suffixed(base_name, suffix) \in DOMAIN registry
    THEN FirstFree(registry, base_name, suffix + 1)
    ELSE Suffixed(base_name, suffix)

\* the "Ensure unique name" block
UniqueName(registry, prompt_name) ==
    IF prompt_name \in DOMAIN registry THEN FirstFree(registry, prompt_name, 1)
    ELSE prompt_name

\* prompt_registry[metadata.name] = metadata
Store(registry, metadata) ==
    [n \in DOMAIN registry \cup {metadata.name} |->
        IF n = metadata.name THEN metadata ELSE registry[n]]

PromptInit ==
    /\ agent_proxies = [n \in Names |-> Absent]
    /\ stack = <<>>
    /\ ret = NoRet
    /\ phase = "idle"
    /\ trace = <<>>
    /\ other = NoTask
    /\ prompt_registry = NoPrompts

\* register_prompt(file_path): the file loads and is stored under a unique
\* name, or loading raises and the exception is logged and dropped
RegisterPrompt ==
    /\ Len(trace) < MaxPrompts
    /\ \E file_path \in PromptFiles, loads \in BOOLEAN :
          IF loads
          THEN LET metadata == GetMetadata(file_path)
                   prompt_name == UniqueName(prompt_registry, metadata.name)
               IN  /\ prompt_registry' =
                          Store(prompt_registry, [metadata EXCEPT !.name = prompt_name])
                   /\ trace' = Append(trace,
                          Event("registered", 0, prompt_name, "register_prompt",
                                file_path, NoKwargs, 0))
          ELSE /\ prompt_registry' = prompt_registry
               /\ trace' = Append(trace,
                      Event("exc", 0, "", "register_prompt", file_path, NoKwargs, 0))
    /\ UNCHANGED <<agent_proxies, stack, ret, phase, other>>

PromptNext == RegisterPrompt

PromptSpec == PromptInit /\ [][PromptNext]_vars

TypeOK ==
    /\ phase \in {"idle", "running", "done"}
    /\ ret.status \in {"none", "ok", "err"}
    /\ (phase = "running") <=> (stack # <<>>)

----------------------------------------------------------------------------
(* Reading the trace of the host's call *)

\* the host has called generate_str on proxy n (its frame sits at depth 1)
Called(n) == phase # "idle" /\ trace[1].ev = "call" /\ trace[1].name = n
HostMessage == trace[1].arg
HostKwargs == trace[1].kwargs
Finished == phase = "done"

TheChain == agent_proxies[ChainName]

IsStepCall(e) == e.ev = "call" /\ e.by = 1
IsStepRet(e) == e.ev = "ret" /\ e.by = 2
IsStepExc(e) == e.ev = "exc" /\ e.by = 2
IsStepEnd(e) == IsStepRet(e) \/ IsStepExc(e)
IsLookup(e) == e.ev = "lookup"
IsBackend(e) == e.ev = "backend"
IsGeneration(e) == e.ev = "backend" /\ e.op # "_workflow.route"
IsRouted(e) == e.ev = "routed"

\* generate_str calls made by the frame at depth 1, and how they ended
StepCalls == SelectSeq(trace, IsStepCall)
StepRets == SelectSeq(trace, IsStepRet)
StepEnds == SelectSeq(trace, IsStepEnd)
Before(p) == SubSeq(trace, 1, p - 1)

----------------------------------------------------------------------------
(* Chain claims *)

\* C1: one ChainProxy.generate_str call over a non-empty sequence calls the
\* steps in sequence order, each entry at most once and none skipped (the k-th
\* call goes to the k-th entry), starts a step only when every earlier step
\* has returned, and has made exactly one call per entry when it returns.
C1_OrderAndCount ==
    (Called(ChainName) /\ TheChain.sequence # <<>>) =>
        /\ Len(StepCalls) <= Len(TheChain.sequence)
        /\ \A k \in 1..Len(StepCalls) : StepCalls[k].name = TheChain.sequence[k]
        /\ \A p \in DOMAIN trace :
              IsStepCall(trace[p]) =>
                  /\ Len(SelectSeq(Before(p), IsStepRet))
                        = Len(SelectSeq(Before(p), IsStepCall))
                  /\ SelectSeq(Before(p), IsStepExc) = <<>>
        /\ (Finished /\ ret.status = "ok") =>
              /\ Len(StepCalls) = Len(TheChain.sequence)
              /\ Len(StepRets) = Len(TheChain.sequence)

C1_Witness ==
    /\ Called(ChainName)
    /\ TheChain.sequence = <<"A", "C", "B">>
    /\ Finished
    /\ ret.status = "ok"
    /\ Len(StepCalls) = 3

\* C2: in sequential mode with two or more entries, every step after the
\* first receives exactly what its predecessor returned, and the chain
\* returns exactly what the last step returned.
C2_SequentialPipeline ==
    (Called(ChainName) /\ ~TheChain.cumulative /\ Len(TheChain.sequence) >= 2) =>
        /\ \A k \in 2..Len(StepCalls) : StepCalls[k].arg = StepRets[k - 1].arg
        /\ (Finished /\ ret.status = "ok") =>
              ret.value = StepRets[Len(TheChain.sequence)].arg

C2_Witness ==
    /\ Called(ChainName)
    /\ ~TheChain.cumulative
    /\ Len(TheChain.sequence) = 3
    /\ Finished
    /\ ret.status = "ok"
    /\ StepRets[1].arg # StepRets[2].arg
    /\ StepRets[2].arg # StepRets[3].arg

\* the transcript of the first n steps as the specification words it: one
\* block <name>\n{output}\n</name> per step, blocks joined by a blank line
Block(name, output) == "<" \o name \o ">\n" \o output \o "\n</" \o name \o ">"

RECURSIVE Transcript(_)
Transcript(n) ==
    IF n = 1 THEN Block(TheChain.sequence[1], StepRets[1].arg)
    ELSE Transcript(n - 1) \o "\n\n" \o Block(TheChain.sequence[n], StepRets[n].arg)

\* C3: in cumulative mode with two or more entries, step k >= 2 receives the
\* transcript of steps 1..k-1 and the chain returns the transcript of all its
\* steps; for [A, B] these are "<A>\n{a}\n</A>" and
\* "<A>\n{a}\n</A>\n\n<B>\n{b}\n</B>".
C3_CumulativeTranscript ==
    (Called(ChainName) /\ TheChain.cumulative /\ Len(TheChain.sequence) >= 2) =>
        /\ \A k \in 2..Len(StepCalls) : StepCalls[k].arg = Transcript(k - 1)
        /\ (Finished /\ ret.status = "ok") =>
              ret.value = Transcript(Len(TheChain.sequence))
        /\ (TheChain.sequence = <<"A", "B">> /\ Len(StepCalls) = 2) =>
              StepCalls[2].arg = "<A>\n" \o StepRets[1].arg \o "\n</A>"
        /\ (TheChain.sequence = <<"A", "B">> /\ Finished /\ ret.status = "ok") =>
              ret.value = "<A>\n" \o StepRets[1].arg \o "\n</A>\n\n<B>\n"
                              \o StepRets[2].arg \o "\n</B>"

C3_Witness ==
    /\ Called(ChainName)
    /\ TheChain.cumulative
    /\ TheChain.sequence = <<"A", "B", "A">>
    /\ Finished
    /\ ret = Ok("<A>\nx\n</A>\n\n<B>\ny\n</B>\n\n<A>\ny\n</A>")

\* C4: once a step of a chain has raised, in either mode, the chain makes no
\* further lookup or call (no later step, no retry), and the caller gets
\* that very exception, never a result.
C4_FailFast ==
    Called(ChainName) =>
        \A p \in DOMAIN trace :
            IsStepExc(trace[p]) =>
                /\ \A q \in p + 1..Len(trace) :
                      trace[q].ev \notin {"call", "lookup", "backend", "ret"}
                /\ Len(SelectSeq(Before(p), IsStepCall))
                      = Len(SelectSeq(Before(p), IsStepRet)) + 1
                /\ Finished => ret = Err(trace[p].arg)

C4_Witness ==
    /\ Called(ChainName)
    /\ TheChain.sequence = <<"A", "B", "C">>
    /\ Resolves("C")
    /\ Finished
    /\ ret = Err(BackendError("B"))
    /\ Len(StepCalls) = 2

\* C5: the **kwargs given to ChainProxy.generate_str are passed, whole, to
\* the first step's generate_str and to no other step: every later step is
\* called with the message alone.
C5_KwargsFirstStepOnly ==
    Called(ChainName) =>
        \A k \in 1..Len(StepCalls) :
            StepCalls[k].kwargs = (IF k = 1 THEN HostKwargs ELSE NoKwargs)

C5_Witness ==
    /\ Called(ChainName)
    /\ HostKwargs # NoKwargs
    /\ Len(StepCalls) = 3
    /\ StepCalls[1].kwargs = HostKwargs

\* C6: a chain with the empty sequence returns the message it was given,
\* whatever the kwargs and the mode, without a registry lookup, a step call or
\* a backend call.
C6_EmptyIsIdentity ==
    (Called(ChainName) /\ TheChain.sequence = <<>>) =>
        /\ \A p \in DOMAIN trace :
              ~IsLookup(trace[p]) /\ ~IsBackend(trace[p]) /\ ~IsStepCall(trace[p])
        /\ Finished => ret = Ok(HostMessage)

C6_Witness ==
    /\ Called(ChainName)
    /\ TheChain.sequence = <<>>
    /\ TheChain.cumulative
    /\ HostKwargs # NoKwargs
    /\ Finished
    /\ ret = Ok("hi")

\* C7: a chain with one entry makes one step call, to that entry with the
\* chain's own message and kwargs, and ends exactly as that call ends: it
\* returns the step's output unchanged (untagged also in cumulative mode).
C7_SingleEntryPassThrough ==
    (Called(ChainName) /\ Len(TheChain.sequence) = 1) =>
        /\ Len(StepCalls) <= 1
        /\ \A k \in 1..Len(StepCalls) :
              /\ StepCalls[k].name = TheChain.sequence[1]
              /\ StepCalls[k].arg = HostMessage
              /\ StepCalls[k].kwargs = HostKwargs
        /\ (Finished /\ StepCalls # <<>>) =>
              /\ Len(StepEnds) = 1
              /\ ret = (IF IsStepRet(StepEnds[1]) THEN Ok(StepEnds[1].arg)
                        ELSE Err(StepEnds[1].arg))
        /\ (Finished /\ ret.status = "ok") => Len(StepCalls) = 1

C7_Witness ==
    /\ Called(ChainName)
    /\ TheChain.sequence = <<"A">>
    /\ TheChain.cumulative
    /\ HostKwargs # NoKwargs
    /\ Finished
    /\ ret = Ok("x")

----------------------------------------------------------------------------
(* Router claims *)

Generations == SelectSeq(trace, IsGeneration)

\* C8: when route() answers the empty list, RouterProxy.generate_str returns
\* "No appropriate route found for the request." as an ordinary result and
\* calls no generation backend and no proxy.
C8_NoRouteText ==
    Called(RouterName) =>
        \A p \in DOMAIN trace :
            (IsRouted(trace[p]) /\ trace[p].results = <<>>) =>
                /\ Finished
                /\ ret = Ok("No appropriate route found for the request.")
                /\ Generations = <<>>
                /\ \A q \in DOMAIN trace : q > 1 => trace[q].ev # "call"

C8_Witness ==
    /\ Called(RouterName)
    /\ \E p \in DOMAIN trace : IsRouted(trace[p]) /\ trace[p].results = <<>>
    /\ Finished
    /\ ret.status = "ok"

\* C9: when the first route result holds a plain string (a server name),
\* RouterProxy.generate_str returns "Tool call requested by router - not yet
\* supported" and calls no backend after the classification.
C9_ToolCallText ==
    Called(RouterName) =>
        \A p \in DOMAIN trace :
            (IsRouted(trace[p]) /\ trace[p].results # <<>>
                /\ trace[p].results[1].result.type = "str") =>
                /\ Finished
                /\ ret = Ok("Tool call requested by router - not yet supported")
                /\ \A q \in DOMAIN trace :
                      q > p => ~IsBackend(trace[q]) /\ trace[q].ev # "call"
                /\ Generations = <<>>

C9_Witness ==
    /\ Called(RouterName)
    /\ \E p \in DOMAIN trace :
          /\ IsRouted(trace[p])
          /\ Len(trace[p].results) = 2
          /\ trace[p].results[1].result.type = "str"
          /\ trace[p].results[2].result.type = "Agent"
    /\ Finished

\* C10: on a non-empty route result the router acts on the first element
\* alone: an Agent there gets exactly one generation call, with the router's
\* own message and kwargs, whose failure is the router's failure; no other
\* element is ever called, and a non-Agent first element means no call at all.
C10_FirstResultOnly ==
    Called(RouterName) =>
        \A p \in DOMAIN trace :
            (IsRouted(trace[p]) /\ trace[p].results # <<>>) =>
                LET top == trace[p].results[1] IN
                /\ Len(SelectSeq(trace, IsRouted)) = 1
                /\ IF top.result.type = "Agent"
                   THEN /\ Len(Generations) = 1
                        /\ Generations[1].name = top.result.repr
                        /\ Generations[1].arg = HostMessage
                        /\ Generations[1].kwargs = HostKwargs
                        /\ (Finished /\ ret.status = "err") =>
                              ret.value = BackendError(top.result.repr)
                   ELSE Generations = <<>>

C10_Witness ==
    /\ Called(RouterName)
    /\ \E p \in DOMAIN trace :
          /\ IsRouted(trace[p])
          /\ Len(trace[p].results) = 2
          /\ trace[p].results[1].result.type = "Agent"
    /\ HostKwargs # NoKwargs
    /\ Finished
    /\ ret = Err(BackendError("A"))
    /\ Len(Generations) = 1

\* C11: once route() has answered, an empty result, a str target and any
\* other non-Agent target all end RouterProxy.generate_str with an ordinary
\* string result (the no-route text, the tool-call text, or the "Routed to"
\* text built from target, confidence and reasoning), never with an exception.
C11_UnroutableNeverRaises ==
    Called(RouterName) =>
        \A p \in DOMAIN trace :
            (IsRouted(trace[p])
                /\ (trace[p].results = <<>>
                       \/ trace[p].results[1].result.type # "Agent")) =>
                /\ Finished
                /\ ret.status = "ok"
                /\ ret.value =
                      (IF trace[p].results = <<>>
                       THEN "No appropriate route found for the request."
                       ELSE IF trace[p].results[1].result.type = "str"
                       THEN "Tool call requested by router - not yet supported"
                       ELSE "Routed to: <function f> (low): why")

C11_Witness ==
    /\ Called(RouterName)
    /\ \E p \in DOMAIN trace :
          IsRouted(trace[p]) /\ trace[p].results = <<RouteResult(OtherTarget, "low")>>
    /\ Finished
    /\ ret.status = "ok"

----------------------------------------------------------------------------
(* Endpoint contract claims *)

KindOf(n) == agent_proxies[n].kind
IsGenerateCall(e) == e.ev = "call"
IsPromptCall(e) == e.ev = "backend" /\ e.op = "app.prompt"
Invoked == phase # "idle" /\ trace[1].ev = "invoke" /\ trace[1].op \in {"__call__", "send"}
\* depth of the send frame of the host's invoke
SendDepth == IF trace[1].op = "__call__" THEN 2 ELSE 1

\* C12: every generate_str call on a plain BaseAgentProxy, whoever makes it
\* (the host with or without kwargs, send with a message, a chain step), ends
\* at once in NotImplementedError and never in a returned string.
C12_BaseAlwaysUnimplemented ==
    \A p \in DOMAIN trace :
        (IsGenerateCall(trace[p]) /\ KindOf(trace[p].name) = "base") =>
            /\ p = Len(trace) => ~Finished
            /\ p < Len(trace) =>
                  /\ trace[p + 1].ev = "exc"
                  /\ trace[p + 1].name = trace[p].name
                  /\ trace[p + 1].arg = NotImplementedError

\* C13: send (and __call__ through it) looks only at whether the message is
\* None: without a message it awaits prompt() with the default "" (one
\* app.prompt(name, "") and no generate_str call at all); with a message, the
\* empty string included, it awaits generate_str(message) on its own proxy
\* and never calls app.prompt.
C13_SendDispatch ==
    Invoked =>
        LET calls == SelectSeq(trace, IsGenerateCall)
            prompts == SelectSeq(trace, IsPromptCall)
        IN  IF trace[1].arg = NoMessage
            THEN /\ calls = <<>>
                 /\ Len(prompts) <= 1
                 /\ \A k \in 1..Len(prompts) :
                       prompts[k].name = trace[1].name /\ prompts[k].arg = ""
                 /\ Finished => Len(prompts) = 1
            ELSE /\ prompts = <<>>
                 /\ \A q \in DOMAIN trace : ~(trace[q].ev = "self" /\ trace[q].op = "prompt")
                 /\ \A k \in 1..Len(calls) :
                       calls[k].by = SendDepth =>
                           /\ k = 1
                           /\ calls[k].name = trace[1].name
                           /\ calls[k].arg = trace[1].arg
                           /\ calls[k].kwargs = NoKwargs
                 /\ Finished => (calls # <<>> /\ calls[1].by = SendDepth)

C13_Witness ==
    /\ Invoked
    /\ trace[1].op = "send"
    /\ trace[1].arg = ""
    /\ trace[1].name = "A"
    /\ Finished
    /\ ret = Ok("x")

\* C14: AgentProxy.generate_str hands app.send its own name and the message
\* and nothing else: whatever kwargs it is called with, the backend call
\* carries none, and the call ends as app.send ends (its answer or its
\* exception), never in an error caused by the kwargs.
C14_LegacyDropsKwargs ==
    \A p \in DOMAIN trace :
        (IsGenerateCall(trace[p]) /\ KindOf(trace[p].name) = "agent") =>
            /\ p < Len(trace) =>
                  /\ trace[p + 1].ev = "backend"
                  /\ trace[p + 1].op = "app.send"
                  /\ trace[p + 1].name = trace[p].name
                  /\ trace[p + 1].arg = trace[p].arg
                  /\ trace[p + 1].kwargs = NoKwargs
            /\ p + 1 < Len(trace) =>
                  /\ trace[p + 2].name = trace[p].name
                  /\ \/ trace[p + 2].ev = "ret" /\ trace[p + 2].arg \in Outputs
                     \/ /\ trace[p + 2].ev = "exc"
                        /\ trace[p + 2].arg = BackendError(trace[p].name)

C14_Witness ==
    /\ Called("B")
    /\ HostKwargs # NoKwargs
    /\ Finished
    /\ ret = Ok("y")

----------------------------------------------------------------------------
(* Frame, flag and resolution claims *)

\* C16: a ChainProxy is built with _cumulative = False and
\* _continue_with_final = True, and no step of any proxy operation (send,
\* prompt, generate_str of any class, returning or raising, over any number of
\* calls) changes the registry or a field of a proxy: whenever agent_proxies
\* changes, no coroutine has moved.
C16_ProxiesNeverWritten ==
    /\ ~TheChain.cumulative /\ TheChain.continue_with_final
    /\ [][(agent_proxies' # agent_proxies) =>
              UNCHANGED <<stack, ret, phase, trace>>]_vars

C16_Witness ==
    /\ Called(ChainName)
    /\ TheChain.sequence = <<"B", "X">>
    /\ TheChain.continue_with_final
    /\ ~TheChain.cumulative
    /\ Finished
    /\ ret = Err(NotImplementedError)

\* what the chain's k-th step must be given, from the sequence, the mode, the
\* host's message and the earlier steps' outputs
ExpectedMessage(k) ==
    IF k = 1 THEN HostMessage
    ELSE IF TheChain.cumulative THEN Transcript(k - 1)
    ELSE StepRets[k - 1].arg

\* how the chain must end, from the same inputs and the registry
ExpectedOutcome ==
    LET n == Len(TheChain.sequence)
        raised == SelectSeq(trace, IsStepExc)
    IN  IF n = 0 THEN Ok(HostMessage)
        ELSE IF raised # <<>> THEN Err(raised[1].arg)
        ELSE IF Len(StepRets) < n THEN Err(KeyError(TheChain.sequence[Len(StepRets) + 1]))
        ELSE IF n = 1 THEN Ok(StepRets[1].arg)
        ELSE IF TheChain.cumulative THEN Ok(Transcript(n))
        ELSE Ok(StepRets[n].arg)

\* C17: the step calls of ChainProxy.generate_str, their messages and kwargs,
\* and its result or failure are fixed by the sequence, the cumulative flag,
\* the call's arguments, the registry and the steps' outcomes, with
\* _continue_with_final set or cleared: two chains that differ in that flag
\* alone behave alike.
C17_ContinueFlagIgnored ==
    Called(ChainName) =>
        /\ \A k \in 1..Len(StepCalls) :
              /\ StepCalls[k].name = TheChain.sequence[k]
              /\ StepCalls[k].arg = ExpectedMessage(k)
              /\ StepCalls[k].kwargs = (IF k = 1 THEN HostKwargs ELSE NoKwargs)
        /\ Finished => ret = ExpectedOutcome

C17_Witness ==
    /\ Called(ChainName)
    /\ ~TheChain.continue_with_final
    /\ Len(TheChain.sequence) = 3
    /\ Finished
    /\ ret.status = "ok"
    /\ Len(StepCalls) = 3

ChainLookups == SelectSeq(trace, LAMBDA e : IsLookup(e) /\ e.by = 1)

\* the k-th lookup is of the k-th name and comes when the k-1 earlier steps
\* have been called and have returned; a failed lookup ends the chain there
LookupsInStep ==
    Called(ChainName) =>
        /\ \A k \in 1..Len(ChainLookups) : ChainLookups[k].name = TheChain.sequence[k]
        /\ \A p \in DOMAIN trace :
              (IsLookup(trace[p]) /\ trace[p].by = 1) =>
                  /\ Len(SelectSeq(Before(p), IsStepCall))
                        = Len(SelectSeq(Before(p), IsLookup))
                  /\ Len(SelectSeq(Before(p), IsStepRet))
                        = Len(SelectSeq(Before(p), IsLookup))
                  /\ (p < Len(trace) /\ trace[p + 1].ev = "exc") =>
                        /\ trace[p + 1].arg = KeyError(trace[p].name)
                        /\ p + 1 = Len(trace)
                        /\ Finished
                        /\ ret = Err(KeyError(trace[p].name))

\* a lookup succeeds exactly when the name has an entry at that moment
LookupReadsRegistryNow ==
    \A n \in StepNames :
        (/\ phase = "running"
         /\ trace[1].ev = "call" /\ trace[1].name = ChainName
         /\ Len(trace') >= Len(trace) + 2
         /\ IsLookup(trace'[Len(trace) + 1])
         /\ trace'[Len(trace) + 1].by = 1
         /\ trace'[Len(trace) + 1].name = n) =>
            (Resolves(n) <=> IsStepCall(trace'[Len(trace) + 2]))

\* C18: a chain resolves each name in the registry when, and only when, its
\* step is reached: the outcome of a lookup is decided by the registry at
\* that moment (a name registered after construction resolves), and a missing
\* name raises KeyError after all earlier steps ran and before any later one.
C18_LazyResolution ==
    /\ []LookupsInStep
    /\ [][LookupReadsRegistryNow]_vars

C18_Witness ==
    /\ Called(ChainName)
    /\ TheChain.sequence = <<"A", "C", "B">>
    /\ ~Resolves("C")
    /\ Finished
    /\ ret = Err(KeyError("C"))
    /\ Len(StepCalls) = 1
    /\ Len(StepRets) = 1

\* a name with no entry when the chain was built resolves once registered
C18_LateNameResolves ==
    /\ Called(ChainName)
    /\ TheChain.sequence = <<"C">>
    /\ Finished
    /\ ret.status = "ok"

----------------------------------------------------------------------------
(* Concurrency claim *)

\* the transcript of the first n steps of `sequence` with outputs `rets`
RECURSIVE TranscriptOf(_, _, _)
TranscriptOf(sequence, rets, n) ==
    IF n = 1 THEN Block(sequence[1], rets[1].arg)
    ELSE TranscriptOf(sequence, rets, n - 1) \o "\n\n" \o Block(sequence[n], rets[n].arg)

\* what one invocation t of the chain does when nothing else runs: its step
\* calls, their messages and its outcome follow from its own message and its
\* own steps' outcomes
RunsAsAlone(t) ==
    (t.phase \in {"running", "done"}) =>
        LET sequence == TheChain.sequence
            n == Len(sequence)
            calls == SelectSeq(t.trace, IsStepCall)
            rets == SelectSeq(t.trace, IsStepRet)
            raised == SelectSeq(t.trace, IsStepExc)
            message == t.trace[1].arg
            value(k) == IF TheChain.cumulative THEN TranscriptOf(sequence, rets, k)
                        ELSE rets[k].arg
        IN  /\ Len(calls) <= n
            /\ Len(calls) <= Len(rets) + 1
            /\ \A k \in 1..Len(calls) :
                  /\ calls[k].name = sequence[k]
                  /\ calls[k].arg = (IF k = 1 THEN message ELSE value(k - 1))
            /\ (t.phase = "done") =>
                  t.ret = (IF n = 0 THEN Ok(message)
                           ELSE IF raised # <<>> THEN Err(raised[1].arg)
                           ELSE IF n = 1 THEN Ok(rets[1].arg)
                           ELSE Ok(value(n)))

\* C15: two generate_str invocations of a chain, interleaved at the awaits of
\* their backends over one registry, do not disturb each other: each one's
\* step calls, the messages its steps receive and its result are those it
\* would produce alone.
C15_NoInterference ==
    /\ RunsAsAlone(Task(stack, ret, phase, trace))
    /\ RunsAsAlone(other)

C15_Witness ==
    /\ TheChain.cumulative
    /\ TheChain.sequence = <<"A", "B">>
    /\ phase = "done"
    /\ ret = Ok("<A>\nx\n</A>\n\n<B>\nx\n</B>")
    /\ other.phase = "running"
    /\ other.trace[1].arg # trace[1].arg
    /\ Len(SelectSeq(other.trace, IsStepCall)) = 2
    /\ SelectSeq(other.trace, IsStepRet)[1].arg = "y"

----------------------------------------------------------------------------
(* Termination claim *)

\* the names a proxy calls: the sequence of a chain
CallsOf(n) ==
    IF agent_proxies[n].kind = "chain"
    THEN {agent_proxies[n].sequence[k] : k \in DOMAIN agent_proxies[n].sequence}
    ELSE {}

RECURSIVE ReachFrom(_, _)
ReachFrom(S, k) ==
    IF k = 0 THEN S
    ELSE ReachFrom(S \cup UNION {CallsOf(m) : m \in S}, k - 1)

\* the names reached from n through the chain sequences of the registry
Reaches(n) == ReachFrom(CallsOf(n), Cardinality(Names))

\* no chain reaches its own name
Acyclic == \A n \in Names : n \notin Reaches(n)

\* n is on, or leads to, a chain that reaches its own name
ReachesCycle(n) == \E m \in Reaches(n) \cup {n} : m \in Reaches(m)

\* the number of steps a complete generate_str of proxy n takes at most
\* (defined when Acyclic)
RECURSIVE Cost(_)
RECURSIVE CostFrom(_, _)
CostFrom(sequence, k) ==
    IF k > Len(sequence) THEN 0
    ELSE Cost(sequence[k]) + 1 + CostFrom(sequence, k + 1)

Cost(n) ==
    LET kind == agent_proxies[n].kind
    IN  IF kind = "chain" THEN 1 + CostFrom(agent_proxies[n].sequence, 1)
        ELSE IF kind \in {"agent", "llm", "workflow"} THEN 2
        ELSE IF kind = "base" THEN 1
        ELSE 0

\* the steps frame f still has to take itself, and for the steps of its
\* sequence it has not yet called
Remaining(f) ==
    IF f.pc = "start" THEN Cost(f.name)
    ELSE IF f.pc = "await_backend" THEN 1
    ELSE 1 + CostFrom(agent_proxies[f.name].sequence, f.i + 1)

RECURSIVE RankOf(_)
RankOf(frames) ==
    IF frames = <<>> THEN 0
    ELSE Remaining(frames[1]) + RankOf(Tail(frames))

RankDecreases ==
    (Acyclic /\ phase = "running") => RankOf(stack') < RankOf(stack)

\* C19: when no chain reaches its own name and awaited backends answer or
\* raise, a started generate_str of a chain eventually returns or fails
\* (every step lowers a natural-number measure of the work left, and the
\* nesting stays below the cap); a chain that reaches itself never returns a
\* value, since nothing in the code stops the descent.
C19_Terminates ==
    /\ (Acyclic /\ phase = "running") ~> (phase = "done")
    /\ [][RankDecreases]_vars
    /\ [](Acyclic => Depth < MaxDepth)
    /\ []((phase = "done" /\ ReachesCycle(trace[1].name)) => ret.status = "err")

\* a chain of a chain of a leaf has returned a value
C19_Witness ==
    /\ Acyclic
    /\ agent_proxies[ChainName].sequence = <<SubName, "A">>
    /\ agent_proxies[SubName].sequence = <<"A", "A">>
    /\ phase = "done"
    /\ trace[1].name = ChainName
    /\ ret.status = "ok"

\* a chain that names itself has nested to the cap without completing
C19_SelfReferenceDescends ==
    /\ agent_proxies[ChainName].sequence = <<"A", ChainName>>
    /\ Depth = MaxDepth
    /\ \A k \in 1..Depth : stack[k].name = ChainName

----------------------------------------------------------------------------
(* Prompt registry claim *)

\* every entry is stored under the name its metadata carries
KeysAreNames ==
    \A n \in DOMAIN prompt_registry : prompt_registry[n].name = n

\* the call that has just been logged
LastCall == trace'[Len(trace')]

\* key is the name a file named base is stored under: base when it is free,
\* otherwise base_n for the least n whose name is free
IsFirstFree(key, base) ==
    IF base \notin DOMAIN prompt_registry THEN key = base
    ELSE \E n \in 1..MaxPrompts :
            /\ key = Suffixed(base, n)
            /\ key \notin DOMAIN prompt_registry
            /\ \A j \in 1..n - 1 : Suffixed(base, j) \in DOMAIN prompt_registry

RegistrationLaw ==
    LET added == DOMAIN prompt_registry' \ DOMAIN prompt_registry
    IN  /\ \A n \in DOMAIN prompt_registry :
              /\ n \in DOMAIN prompt_registry'
              /\ prompt_registry'[n] = prompt_registry[n]
        /\ Cardinality(added) <= 1
        /\ IF LastCall.ev = "registered"
           THEN /\ added = {LastCall.name}
                /\ IsFirstFree(LastCall.name, GetMetadata(LastCall.arg).name)
                /\ prompt_registry'[LastCall.name].file = LastCall.arg
           ELSE added = {}

\* C20: across register_prompt calls the registry's names stay unique and no
\* entry is overwritten: a call keeps every existing key and its metadata,
\* adds at most one key, and a prompt whose name is taken goes under the
\* first free name base_1, base_2, ...
C20_UniqueNoOverwrite ==
    /\ []KeysAreNames
    /\ [][RegistrationLaw]_vars

\* two files named p and one named p_1: the second p went to p_2
C20_Witness ==
    /\ DOMAIN prompt_registry = {"p", "p_1", "p_2"}
    /\ prompt_registry["p"].file = "a/p.txt"
    /\ prompt_registry["p_1"].file = "p_1.txt"
    /\ prompt_registry["p_2"].file = "b/p.txt"

====
